---- MODULE Spec2Model ----
(***************************************************************************)
(* State-machine model of the live VWAP trade manager                       *)
(* (src/trade_manager_all_nse.py): the VWAP cache, the scan / admit / exit  *)
(* / save loop, the start-up resume code and the KeyboardInterrupt handler. *)
(*                                                                         *)
(* Numbers.  Prices and volumes are integers.  Every quotient the program  *)
(* computes in floating point (pct_change, VWAP, score) is kept as an exact *)
(* fraction [num, den] with den > 0 and compared by cross-multiplication.   *)
(* Time is in seconds (clock); candle dates are minutes before "now".       *)
(***************************************************************************)
EXTENDS Integers, Sequences, FiniteSets, TLC

VARIABLES
  pc,              \* position of the process in the script / its fate
  symbols,         \* the universe loaded from CSV_SYMBOL_FILE (scan order)
  active_trades,   \* dict symbol -> position, as a sequence in insertion order
  realized_trades, \* list of realized rows
  vwap_cache,      \* token -> cache entry
  json_file,       \* active_trades.json on disk
  csv_file,        \* realized_trades.csv on disk
  clock,           \* dt.datetime.now(), seconds
  now,             \* "now" string of the cycle (line 215)
  ltp_data_df,     \* rows returned by fetch_ltp_data_batched in this cycle
  ltp_map,         \* result of kite.ltp for the open positions in this cycle
  to_exit,         \* symbols marked for exit in this cycle
  idx,             \* index of the exit loop over active_trades.items()
  save_ret,        \* where save_trade_data returns to ("sleep" / "stopped")
  cycle,           \* scan cycles started so far
  hist,            \* observations of the run (what was requested, seen, reported)
  bt               \* the weekly backtest (src/main.py): its parameters and lists

vars == <<pc, symbols, active_trades, realized_trades, vwap_cache, json_file,
          csv_file, clock, now, ltp_data_df, ltp_map, to_exit, idx, save_ret,
          cycle, hist, bt>>

(***************************************************************************)
(* Program constants (src/trade_manager_all_nse.py, lines 15-46)           *)
(***************************************************************************)
MIN_PCT_CHANGE == 2
STOP_LOSS_PCT == 1
SCAN_INTERVAL_SECONDS == 30
MAX_TRADES == 5
CAPITAL_PER_TRADE == 20000
MIN_VOLUME_THRESHOLD == 1000000
VWAP_TREND_LOOKBACK_MIN == 15
VWAP_CACHE_TTL == 180

(***************************************************************************)
(* Bounds of the model                                                      *)
(***************************************************************************)
\* batch_size of fetch_ltp_data_batched is 200 in the source; it is scaled so
\* that the small universes of the model still span several batches.
BatchSize == 2
MaxCycles == 2      \* scan cycles of a run, over all restarts of the process
MaxReads == 3       \* reads of the cache in the stand-alone cache specification
MaxClock == 400     \* last second of the stand-alone cache specification
MaxWeeks == 2       \* weeks (rows of the score frame past the lookback) of a backtest

(***************************************************************************)
(* Values                                                                   *)
(***************************************************************************)
Undef == [def |-> FALSE, num |-> 0, den |-> 1]          \* Python None

RECURSIVE GCD(_, _)
GCD(a, b) == IF b = 0 THEN a ELSE GCD(b, a % b)

\* the fraction n/d (d > 0) in lowest terms
Frac(n, d) ==
  LET g == GCD(IF n < 0 THEN -n ELSE n, d)
  IN [def |-> TRUE, num |-> n \div g, den |-> d \div g]

\* Python truthiness of a float-or-None: None and 0.0 are falsy.
Truthy(v) == v.def /\ v.num # 0

\* a > b, a <= b on defined fractions (denominators are positive)
FracGt(a, b) == a.num * b.den > b.num * a.den
FracLe(a, b) == a.num * b.den <= b.num * a.den
\* integer price p against a fraction
PriceGt(p, v) == p * v.den > v.num
PriceLe(p, v) == p * v.den <= v.num

Max(a, b) == IF a >= b THEN a ELSE b

Range(s) == {s[i] : i \in 1..Len(s)}

(***************************************************************************)
(* Instruments.  get_token (src/live_scanner.py) looks the symbol up in the *)
(* instruments frame and returns its instrument_token, a numpy int64.       *)
(***************************************************************************)
AllSymbols == {"S1", "F1", "F2", "F3", "F4", "F5", "F6"}

TokenId(s) ==
  CASE s = "S1" -> 1
    [] s = "F1" -> 2 [] s = "F2" -> 3 [] s = "F3" -> 4
    [] s = "F4" -> 5 [] s = "F5" -> 6 [] s = "F6" -> 7

TokenIds == {TokenId(s) : s \in AllSymbols}

\* A token is an integer in memory and a string once it went through JSON.
IntTok(n) == [kind |-> "int", id |-> n]
StrTok(n) == [kind |-> "str", id |-> n]
Tokens == [kind : {"int", "str"}, id : TokenIds]

get_token(s) == IntTok(TokenId(s))

(***************************************************************************)
(* Historical bars.  A candle is [high, low, close, volume, age] where age  *)
(* is the candle's date in minutes before now; bars arrive oldest first.    *)
(***************************************************************************)
Candle(h, l, c, v, a) == [high |-> h, low |-> l, close |-> c, volume |-> v, age |-> a]

BarsRaise == [kind |-> "raise", exc |-> "transient", candles |-> <<>>]
BarsToken == [kind |-> "raise", exc |-> "token", candles |-> <<>>]
Bars(cs) == [kind |-> "ok", exc |-> "none", candles |-> cs]

\* what kite.historical_data may answer for a token
BarsEmpty == Bars(<<>>)
BarsZeroVol == Bars(<<Candle(99, 97, 98, 0, 5)>>)
\* VWAP 98, no candle before the cutoff
BarsNew == Bars(<<Candle(99, 97, 98, 10, 5)>>)
\* VWAP 24900, no candle before the cutoff
BarsHigh == Bars(<<Candle(24950, 24850, 24900, 10, 5)>>)
\* VWAP 96 before the cutoff, 98 now
BarsRising == Bars(<<Candle(97, 95, 96, 10, 20), Candle(101, 99, 100, 10, 5)>>)
\* VWAP 99 before the cutoff, 98 now
BarsSag == Bars(<<Candle(100, 98, 99, 10, 20), Candle(98, 96, 97, 10, 5)>>)
\* VWAP 101 before the cutoff and now
BarsFlat == Bars(<<Candle(102, 100, 101, 10, 20), Candle(102, 100, 101, 10, 5)>>)
\* VWAP 104 before the cutoff, 102 now
BarsFalling == Bars(<<Candle(105, 103, 104, 10, 20), Candle(101, 99, 100, 10, 5)>>)

BarOptions(id) ==
  IF id = 1 THEN {BarsRaise, BarsToken, BarsEmpty, BarsZeroVol, BarsNew, BarsRising,
                  BarsSag, BarsFlat, BarsFalling}
  ELSE IF id = 7 THEN {BarsHigh}
  ELSE {BarsNew}

(***************************************************************************)
(* calculate_intraday_vwap_pair (lines 64-126)                              *)
(***************************************************************************)
NoEntry == [present |-> FALSE, timestamp |-> 0, vwap_now |-> Undef, vwap_prev |-> Undef]
Entry(t, vn, vp) == [present |-> TRUE, timestamp |-> t, vwap_now |-> vn, vwap_prev |-> vp]

\* lines 99-111: running totals of tp*volume and volume; the "prev" totals are
\* the running totals at the last candle dated at or before the cutoff.
\* tp = (high+low+close)/3 is kept as the sum, the 3 goes into the denominator.
RECURSIVE VwapTotals(_, _)
VwapTotals(candles, acc) ==
  IF candles = <<>> THEN acc
  ELSE LET c == Head(candles)
           tpv == acc.total_tpvol + (c.high + c.low + c.close) * c.volume
           vol == acc.total_vol + c.volume
           old == c.age >= VWAP_TREND_LOOKBACK_MIN       \* c['date'] <= cutoff
       IN VwapTotals(Tail(candles),
            [total_tpvol |-> tpv, total_vol |-> vol,
             prev_total_tpvol |-> IF old THEN tpv ELSE acc.prev_total_tpvol,
             prev_total_vol |-> IF old THEN vol ELSE acc.prev_total_vol])

\* lines 113-114
VwapPair(candles) ==
  LET t == VwapTotals(candles, [total_tpvol |-> 0, total_vol |-> 0,
                                prev_total_tpvol |-> 0, prev_total_vol |-> 0])
  IN [vwap_now |-> IF t.total_vol # 0 THEN Frac(t.total_tpvol, 3 * t.total_vol) ELSE Undef,
      vwap_prev |-> IF t.prev_total_vol # 0
                    THEN Frac(t.prev_total_tpvol, 3 * t.prev_total_vol) ELSE Undef]

\* the freshness test of line 78 with <= in place of <
CacheFreshInclusive(cache, tok, now_time) ==
  cache[tok].present /\ now_time - cache[tok].timestamp <= VWAP_CACHE_TTL

\* lines 76-80: is the read served from the cache
CacheFresh(cache, tok, now_time) ==
  cache[tok].present /\ now_time - cache[tok].timestamp < VWAP_CACHE_TTL

\* the function without lines 91 and 125: a failed fetch leaves the cache alone
VwapPairFailureNotCached(cache, tok, now_time, bars) ==
  IF CacheFresh(cache, tok, now_time)
  THEN [vwap_now |-> cache[tok].vwap_now, vwap_prev |-> cache[tok].vwap_prev,
        cache |-> cache, fetched |-> FALSE]
  ELSE IF bars.kind = "raise" \/ bars.candles = <<>>
  THEN [vwap_now |-> Undef, vwap_prev |-> Undef, cache |-> cache, fetched |-> TRUE]
  ELSE LET p == VwapPair(bars.candles)
       IN [vwap_now |-> p.vwap_now, vwap_prev |-> p.vwap_prev,
           cache |-> [cache EXCEPT ![tok] = Entry(now_time, p.vwap_now, p.vwap_prev)],
           fetched |-> TRUE]

\* The whole function: `bars` is what kite.historical_data answers if asked.
\* Result: the returned pair, the cache afterwards, and whether a bar request
\* was issued.
calculate_intraday_vwap_pair(cache, tok, now_time, bars) ==
  IF CacheFresh(cache, tok, now_time)
  THEN [vwap_now |-> cache[tok].vwap_now, vwap_prev |-> cache[tok].vwap_prev,
        cache |-> cache, fetched |-> FALSE]
  ELSE IF bars.kind = "raise" \/ bars.candles = <<>>
  THEN [vwap_now |-> Undef, vwap_prev |-> Undef,
        cache |-> [cache EXCEPT ![tok] = Entry(now_time, Undef, Undef)],
        fetched |-> TRUE]
  ELSE LET p == VwapPair(bars.candles)
       IN [vwap_now |-> p.vwap_now, vwap_prev |-> p.vwap_prev,
           cache |-> [cache EXCEPT ![tok] = Entry(now_time, p.vwap_now, p.vwap_prev)],
           fetched |-> TRUE]

EmptyCache == [t \in Tokens |-> NoEntry]

(***************************************************************************)
(* Live quotes.  kite.quote answers per batch (or raises); an item is       *)
(* [open, last_price, volume] or is missing from the response.              *)
(***************************************************************************)
NoQuote == [present |-> FALSE, open |-> 0, last_price |-> 0, volume |-> 0]
Quote(o, l, v) == [present |-> TRUE, open |-> o, last_price |-> l, volume |-> v]

QuoteOptions(s) ==
  IF s = "S1" THEN {NoQuote,
                    Quote(100, 102, 2000000),      \* pct_change = 2.0, not above
                    Quote(97, 100, 999999),        \* volume below the floor
                    Quote(0, 100, 1000000),        \* no open price: pct_change = 0.0
                    Quote(97, 100, 1000000)}
  ELSE IF s = "F1" THEN {NoQuote, Quote(97, 100, 1000000)}
  \* the strongest mover, at a price above CAPITAL_PER_TRADE
  ELSE IF s = "F6" THEN {Quote(24000, 25000, 1000000)}
  ELSE {Quote(97, 100, 1000000)}

\* kite.ltp for the open positions: per symbol a price, or missing
NoLtp == [present |-> FALSE, last_price |-> 0]
Ltp(p) == [present |-> TRUE, last_price |-> p]

LtpOptions(s) ==
  IF s = "S1" THEN {NoLtp, Ltp(98), Ltp(99), Ltp(101)}
  ELSE IF s = "F1" THEN {Ltp(99), Ltp(100)}
  ELSE IF s = "F6" THEN {Ltp(25000)}
  ELSE {Ltp(100)}

\* outcome of one provider call
CallOutcomes == {"ok", "transient", "token"}

(***************************************************************************)
(* Dict helpers: active_trades is a Python dict, kept as the sequence of    *)
(* its items in insertion order; every item carries its key in `symbol`.    *)
(***************************************************************************)
Keys(d) == {d[i].symbol : i \in 1..Len(d)}

Get(d, k) == d[CHOOSE i \in 1..Len(d) : d[i].symbol = k]

\* d[k] = item: an existing key keeps its place, a new key goes last
DictSet(d, item) ==
  IF item.symbol \in Keys(d)
  THEN [i \in 1..Len(d) |-> IF d[i].symbol = item.symbol THEN item ELSE d[i]]
  ELSE Append(d, item)

\* d.pop(k, None)
RECURSIVE DictPop(_, _)
DictPop(d, k) ==
  IF d = <<>> THEN <<>>
  ELSE IF Head(d).symbol = k THEN Tail(d)
  ELSE <<Head(d)>> \o DictPop(Tail(d), k)

(***************************************************************************)
(* fetch_ltp_data_batched (lines 178-203)                                   *)
(***************************************************************************)
NumBatches(syms) == (Len(syms) + BatchSize - 1) \div BatchSize

\* the batch (1-based) the i-th symbol is requested in
BatchOf(i) == ((i - 1) \div BatchSize) + 1

\* line 192: pct_change, as a fraction
PctChange(o, l) == IF o # 0 THEN Frac((l - o) * 100, o) ELSE Frac(0, 1)

Row(s, q) == [symbol |-> s, open |-> q.open, last_price |-> q.last_price,
              volume |-> q.volume, pct_change |-> PctChange(q.open, q.last_price)]

\* resp[k] is the outcome of kite.quote for batch k, quote[s] the item of s in
\* a successful response.  A batch that raises adds no row; the loop goes on
\* with the next batch.
RECURSIVE BatchedRows(_, _, _, _)
BatchedRows(syms, i, resp, quote) ==
  IF i > Len(syms) THEN <<>>
  ELSE LET s == syms[i]
           rest == BatchedRows(syms, i + 1, resp, quote)
       IN IF resp[BatchOf(i)] = "ok" /\ quote[s].present
          THEN <<Row(s, quote[s])>> \o rest
          ELSE rest

fetch_ltp_data_batched(syms, resp, quote) == BatchedRows(syms, 1, resp, quote)

(***************************************************************************)
(* Entry evaluation (lines 223-266)                                         *)
(***************************************************************************)
\* the filter of line 226 without its `symbol in active_trades` test
PassesFiltersOpenToo(row, active) ==
  /\ ~(row.pct_change.num <= MIN_PCT_CHANGE * row.pct_change.den)
  /\ ~(row.volume < MIN_VOLUME_THRESHOLD)

\* the filters of lines 226-234 without the volume step of lines 230-234
PassesFiltersNoVolume(row, active) ==
  /\ ~(row.pct_change.num <= MIN_PCT_CHANGE * row.pct_change.den)
  /\ row.symbol \notin Keys(active)

\* lines 226-234: steps 1 and 2, the row goes on to the VWAP lookup
PassesFilters(row, active) ==
  /\ ~(row.pct_change.num <= MIN_PCT_CHANGE * row.pct_change.den)
  /\ row.symbol \notin Keys(active)
  /\ ~(row.volume < MIN_VOLUME_THRESHOLD)

\* the gate of lines 240-243 without the trend test of lines 241-243
VwapGatePriceOnly(row, vwap_now_, vwap_prev_) ==
  /\ Truthy(vwap_now_)
  /\ PriceGt(row.last_price, vwap_now_)

\* lines 240-243: price above a truthy VWAP, and VWAP rising or no previous VWAP
VwapGate(row, vwap_now_, vwap_prev_) ==
  /\ Truthy(vwap_now_)
  /\ PriceGt(row.last_price, vwap_now_)
  /\ (~vwap_prev_.def \/ FracGt(vwap_now_, vwap_prev_))

\* line 245: 0.8*pct_change + 0.2*((last_price - vwap_now)/vwap_now*100)
Score(row, v) ==
  Frac(8 * row.pct_change.num * v.num
         + 2 * (row.last_price * v.den - v.num) * 100 * row.pct_change.den,
       10 * row.pct_change.den * v.num)

\* The loop over the rows.  st carries the cache, the candidates so far, and
\* what the loop asked of the provider; bars[id] is what kite.historical_data
\* answers for token id when asked.
RECURSIVE EvalRows(_, _, _, _, _)
EvalRows(rows, st, active, now_time, bars) ==
  IF rows = <<>> THEN st
  ELSE LET row == Head(rows)
           rest == Tail(rows)
       IN IF ~PassesFilters(row, active)
          THEN EvalRows(rest, st, active, now_time, bars)
          ELSE LET token == get_token(row.symbol)
                   r == calculate_intraday_vwap_pair(st.cache, token, now_time, bars[token.id])
                   cand == [symbol |-> row.symbol, last_price |-> row.last_price,
                            pct_change |-> row.pct_change, vwap |-> r.vwap_now,
                            vwap_prev_15m |-> r.vwap_prev, score |-> Score(row, r.vwap_now),
                            token |-> token, volume |-> row.volume]
                   st2 == [cache |-> r.cache,
                           potential_trades |->
                             IF VwapGate(row, r.vwap_now, r.vwap_prev)
                             THEN Append(st.potential_trades, cand)
                             ELSE st.potential_trades,
                           lookups |-> st.lookups \cup {row.symbol},
                           requests |-> IF r.fetched THEN st.requests \cup {token}
                                        ELSE st.requests,
                           cred |-> st.cred \/ (r.fetched /\ bars[token.id].exc = "token")]
               IN EvalRows(rest, st2, active, now_time, bars)

\* line 257: sorted(..., key=score, reverse=True); Python's sort is stable, so
\* equal scores keep the order of the list.
\* the insertion of an unstable descending sort: x goes before its equals
RECURSIVE InsertRankedTiesFirst(_, _)
InsertRankedTiesFirst(ranked, x) ==
  IF ranked = <<>> THEN <<x>>
  ELSE IF ~FracGt(Head(ranked).score, x.score) THEN <<x>> \o ranked
  ELSE <<Head(ranked)>> \o InsertRankedTiesFirst(Tail(ranked), x)

RECURSIVE InsertRanked(_, _)
InsertRanked(ranked, x) ==
  IF ranked = <<>> THEN <<x>>
  ELSE IF FracGt(x.score, Head(ranked).score) THEN <<x>> \o ranked
  ELSE <<Head(ranked)>> \o InsertRanked(Tail(ranked), x)

RECURSIVE SortedDesc(_, _)
SortedDesc(done, todo) ==
  IF todo = <<>> THEN done
  ELSE SortedDesc(InsertRanked(done, Head(todo)), Tail(todo))

Ranked(potential_trades) == SortedDesc(<<>>, potential_trades)

\* ranked[:n] with Python's slice rules
Slice(seq, n) ==
  IF n >= 0 THEN SubSeq(seq, 1, IF n < Len(seq) THEN n ELSE Len(seq))
  ELSE SubSeq(seq, 1, Max(0, Len(seq) + n))

\* line 260 without the max(1, ...)
PositionNoMinimum(trade, now_) ==
  [symbol |-> trade.symbol,
   entry_price |-> trade.last_price,
   qty |-> CAPITAL_PER_TRADE \div trade.last_price,
   entry_time |-> now_,
   token |-> trade.token]

\* lines 260-266
Position(trade, now_) ==
  [symbol |-> trade.symbol,
   entry_price |-> trade.last_price,
   qty |-> Max(1, CAPITAL_PER_TRADE \div trade.last_price),
   entry_time |-> now_,
   token |-> trade.token]

RECURSIVE AdmitAll(_, _, _)
AdmitAll(active, picks, now_) ==
  IF picks = <<>> THEN active
  ELSE AdmitAll(DictSet(active, Position(Head(picks), now_)), Tail(picks), now_)

\* the admission loop without the [:slots] slice of line 258
AdmittedUnsliced(active, potential_trades, now_) ==
  AdmitAll(active, Ranked(potential_trades), now_)

\* lines 257-266
Admitted(active, potential_trades, now_) ==
  LET ranked == Ranked(potential_trades)
      slots == MAX_TRADES - Len(active)
  IN AdmitAll(active, Slice(ranked, slots), now_)

(***************************************************************************)
(* Exit evaluation (lines 280-299)                                          *)
(***************************************************************************)
\* line 281: the live price, the entry price when the quote is missing
LivePrice(m, trade) ==
  IF m[trade.symbol].present THEN m[trade.symbol].last_price ELSE trade.entry_price

\* line 283 and the first disjunct of line 286:
\* ltp <= entry_price * (1 - STOP_LOSS_PCT / 100)
StopHit(ltp, entry_price) == ltp * 100 <= entry_price * (100 - STOP_LOSS_PCT)

\* the VWAP disjunct of line 286 with vwap_now < vwap_prev in place of <=
VwapExitFallingOnly(ltp, vwap_now_, vwap_prev_) ==
  /\ Truthy(vwap_now_)
  /\ Truthy(vwap_prev_)
  /\ PriceLe(ltp, vwap_now_)
  /\ ~FracLe(vwap_prev_, vwap_now_)

\* second disjunct of line 286
VwapExit(ltp, vwap_now_, vwap_prev_) ==
  /\ Truthy(vwap_now_)
  /\ Truthy(vwap_prev_)
  /\ PriceLe(ltp, vwap_now_)
  /\ FracLe(vwap_now_, vwap_prev_)

\* the exit condition of line 286 without its stop-loss disjunct
ExitCondVwapOnly(ltp, entry_price, vwap_now_, vwap_prev_) ==
  VwapExit(ltp, vwap_now_, vwap_prev_)

\* line 286
ExitCond(ltp, entry_price, vwap_now_, vwap_prev_) ==
  StopHit(ltp, entry_price) \/ VwapExit(ltp, vwap_now_, vwap_prev_)

\* the pnl of line 292 with the two prices exchanged
RealizedSignFlipped(trade, ltp) ==
  [symbol |-> trade.symbol, entry_price |-> trade.entry_price, exit_price |-> ltp,
   qty |-> trade.qty, pnl |-> (trade.entry_price - ltp) * trade.qty]

\* lines 287-294
Realized(trade, ltp) ==
  [symbol |-> trade.symbol, entry_price |-> trade.entry_price, exit_price |-> ltp,
   qty |-> trade.qty, pnl |-> (ltp - trade.entry_price) * trade.qty]

\* lines 322-323 left out: no marked position is popped
PopAllNone(active, exits) == active

\* lines 322-323
RECURSIVE PopAll(_, _)
PopAll(active, exits) ==
  IF exits = <<>> THEN active ELSE PopAll(DictPop(active, Head(exits)), Tail(exits))

(***************************************************************************)
(* Persistence: save_trade_data (lines 206-209) and resume (lines 144-162)  *)
(***************************************************************************)
\* a file is absent, truncated (opened for writing, not yet written and
\* closed) or holds the data of a finished write
FileAbsent == [state |-> "absent", data |-> <<>>]
FileTrunc == [state |-> "trunc", data |-> <<>>]
FileFull(d) == [state |-> "full", data |-> d]

\* json.dump(active_trades, f, default=str): every value json cannot encode
\* goes through str(); that is the numpy int64 token
JsonDump(active) ==
  [i \in 1..Len(active) |-> [active[i] EXCEPT !.token = StrTok(active[i].token.id)]]

\* lines 145-153: what start-up makes of active_trades.json
JsonStatus(f) ==
  IF f.state = "absent" THEN "absent" ELSE IF f.state = "full" THEN "ok" ELSE "corrupt"

ResumeActive(f) == IF f.state = "full" THEN f.data ELSE <<>>

\* lines 156-162: read_csv raises on a file without a header line (a truncated
\* file, and the file to_csv writes for an empty list); the except keeps []
ResumeRealized(f) == IF f.state = "full" THEN f.data ELSE <<>>

(***************************************************************************)
(* The process.  A program variable that is dead (assigned again before it *)
(* is read again: the frame of quotes once kite.ltp is called, ltp_map and  *)
(* to_exit after the P&L summary) is reset where it dies.                   *)
(***************************************************************************)
\* inside the try block of the main loop (lines 212-359)
TryPcs == {"scan", "admit", "ltp", "exits", "save", "save_json", "save_csv", "sleep"}
SavePcs == {"save", "save_json", "save_csv"}
\* the process is alive
RunPcs == TryPcs \cup {"boot"}
\* the process has ended
EndPcs == {"exited", "crashed", "stopped", "killed"}

NoRead == [tok |-> IntTok(1), time |-> 0, prior |-> NoEntry, fetched |-> FALSE,
           answer |-> "none", vwap_now |-> Undef, vwap_prev |-> Undef]

\* observations of one process; reset when the process is started again
RunHist ==
  [boot_json |-> "none",          \* what resume found in active_trades.json
   boot_csv |-> "none",
   boot_clean |-> FALSE,          \* resume read the files of a completed save
   cred |-> FALSE,                \* the provider reported a TokenException in this cycle
   cred_next |-> FALSE,           \* ... and the loop went on to the next cycle
   death |-> "none",              \* the exception that ended the process
   interrupted |-> FALSE,
   final_pnl_reported |-> FALSE,
   batches_requested |-> {},      \* batches kite.quote was called for, this cycle
   batches_failed |-> {},
   lookups |-> {},                \* symbols entry evaluation looked the VWAP up for
   requests |-> {},               \* tokens entry evaluation requested bars for
   opened |-> {},                 \* symbols the admission step of this cycle opened
   resumed |-> 0,                 \* positions and realized trades the process started with
   admissions |-> 0,              \* positions the process has opened
   evals |-> {}]                  \* exit evaluations of this cycle

\* observations about the disk, which outlive the process
DiskHist ==
  [saved |-> [open |-> <<>>, realized |-> <<>>],   \* content of the last completed save
   mem |-> [open |-> <<>>, realized |-> <<>>],     \* the in-memory state it saved
   save_complete |-> TRUE]                         \* no save was begun since

\* observations of the stand-alone cache specification
CacheHist ==
  [reads |-> 0, read |-> NoRead, bar_log |-> [t \in Tokens |-> <<>>]]

Merge(a, b) == [k \in DOMAIN a \cup DOMAIN b |-> IF k \in DOMAIN a THEN a[k] ELSE b[k]]

NoLtpMap == [s \in AllSymbols |-> NoLtp]

\* simulate_backtest has not been called
NoBacktest == [i |-> 0, top_n |-> 0, thresh |-> Undef, cur_scores |-> <<>>,
               day |-> "none", gap |-> FALSE,
               returns |-> <<>>, dates |-> <<>>, cash_flags |-> <<>>, weights_rec |-> <<>>]

InitWith(universe, pc0) ==
  /\ pc = pc0
  /\ symbols = universe
  /\ active_trades = <<>>
  /\ realized_trades = <<>>
  /\ vwap_cache = EmptyCache
  /\ json_file = FileAbsent
  /\ csv_file = FileAbsent
  /\ clock = 0
  /\ now = 0
  /\ ltp_data_df = <<>>
  /\ ltp_map = NoLtpMap
  /\ to_exit = <<>>
  /\ idx = 1
  /\ save_ret = "sleep"
  /\ cycle = 0
  /\ hist = Merge(RunHist, Merge(DiskHist, CacheHist))
  /\ bt = NoBacktest

\* lines 56-61 and 140-162: token check, universe, resume
Startup ==
  /\ pc = "boot"
  /\ \E profile \in {"ok", "token"} :
       IF profile = "token"
       THEN /\ pc' = "exited"                       \* sys.exit(1)
            /\ UNCHANGED <<active_trades, realized_trades, hist>>
       ELSE /\ pc' = "scan"
            /\ active_trades' = ResumeActive(json_file)
            /\ realized_trades' = ResumeRealized(csv_file)
            /\ hist' = [hist EXCEPT !.boot_json = JsonStatus(json_file),
                                    !.boot_csv = JsonStatus(csv_file),
                                    !.boot_clean = hist.save_complete,
                                    !.resumed = Len(ResumeActive(json_file))
                                                  + Len(ResumeRealized(csv_file))]
  /\ UNCHANGED <<bt, symbols, vwap_cache, json_file, csv_file, clock, now, ltp_data_df,
                 ltp_map, to_exit, idx, save_ret, cycle>>

\* the outcomes of the kite.quote calls of one scan: all answer, or the first
\* batch fails
QuoteOutcomes(n) ==
  {[k \in 1..n |-> "ok"]} \cup
  {[k \in 1..n |-> IF k = 1 THEN e ELSE "ok"] : e \in {"transient", "token"}}

\* the responses kite.quote may give for the universe
RECURSIVE QuoteMapsFrom(_, _)
QuoteMapsFrom(keys, base) ==
  IF keys = {} THEN {base}
  ELSE LET k == CHOOSE x \in keys : TRUE
       IN UNION {QuoteMapsFrom(keys \ {k}, [base EXCEPT ![k] = v]) : v \in QuoteOptions(k)}

QuoteMaps(syms) == QuoteMapsFrom(Range(syms), [s \in AllSymbols |-> NoQuote])

\* lines 213-222: top of the loop; the scan unless MAX_TRADES is reached
LoopTop ==
  /\ pc = "scan"
  /\ cycle < MaxCycles
  /\ cycle' = cycle + 1
  /\ now' = clock
  /\ IF Len(active_trades) >= MAX_TRADES
     THEN /\ pc' = "ltp"
          /\ ltp_data_df' = ltp_data_df
          /\ hist' = [hist EXCEPT !.boot_json = "none", !.boot_csv = "none",
                                  !.boot_clean = FALSE, !.cred_next = FALSE]
     ELSE \E resp \in QuoteOutcomes(NumBatches(symbols)), quote \in QuoteMaps(symbols) :
            LET failed == {k \in DOMAIN resp : resp[k] # "ok"}
                tok == \E k \in DOMAIN resp : resp[k] = "token"
            IN /\ pc' = "admit"
               /\ ltp_data_df' = fetch_ltp_data_batched(symbols, resp, quote)
               /\ hist' = [hist EXCEPT !.boot_json = "none", !.boot_csv = "none",
                                       !.boot_clean = FALSE, !.cred_next = FALSE,
                                       !.batches_requested = DOMAIN resp,
                                       !.batches_failed = failed,
                                       !.cred = @ \/ tok]
  /\ UNCHANGED <<bt, symbols, active_trades, realized_trades, vwap_cache, json_file, csv_file,
                 clock, ltp_map, to_exit, idx, save_ret>>

\* the answers kite.historical_data may give for a set of token ids
RECURSIVE BarMapsFrom(_, _)
BarMapsFrom(ids, base) ==
  IF ids = {} THEN {base}
  ELSE LET k == CHOOSE x \in ids : TRUE
       IN UNION {BarMapsFrom(ids \ {k}, [base EXCEPT ![k] = v]) : v \in BarOptions(k)}

\* (a token that is not asked for has no answer: BarsEmpty stands in)
BarMaps(ids) == BarMapsFrom(ids, [i \in TokenIds |-> BarsEmpty])

\* rows of the frame whose VWAP lookup is not served from the cache
StaleIds(rows, active, cache, now_time) ==
  {TokenId(rows[i].symbol) : i \in {j \in 1..Len(rows) :
      /\ PassesFilters(rows[j], active)
      /\ ~CacheFresh(cache, get_token(rows[j].symbol), now_time)}}

\* lines 223-275: filter, VWAP gate, score, rank, admit
Admit ==
  /\ pc = "admit"
  /\ \E bars \in BarMaps(StaleIds(ltp_data_df, active_trades, vwap_cache, clock)) :
       LET st == EvalRows(ltp_data_df,
                          [cache |-> vwap_cache, potential_trades |-> <<>>, lookups |-> {},
                           requests |-> {}, cred |-> FALSE],
                          active_trades, clock, bars)
       IN /\ vwap_cache' = st.cache
          /\ active_trades' = Admitted(active_trades, st.potential_trades, now)
          /\ hist' = [hist EXCEPT
                !.lookups = st.lookups, !.requests = st.requests,
                !.opened = Keys(Admitted(active_trades, st.potential_trades, now))
                             \ Keys(active_trades),
                !.admissions = @ + Len(Admitted(active_trades, st.potential_trades, now))
                                 - Len(active_trades),
                !.cred = @ \/ st.cred]
  /\ pc' = "ltp"
  /\ UNCHANGED <<bt, symbols, realized_trades, json_file, csv_file, clock, now, ltp_data_df,
                 ltp_map, to_exit, idx, save_ret, cycle>>

\* the responses kite.ltp may give for the open positions
RECURSIVE LtpMapsFrom(_, _)
LtpMapsFrom(keys, base) ==
  IF keys = {} THEN {base}
  ELSE LET k == CHOOSE x \in keys : TRUE
       IN UNION {LtpMapsFrom(keys \ {k}, [base EXCEPT ![k] = v]) : v \in LtpOptions(k)}

LtpMaps(keys) == LtpMapsFrom(keys, NoLtpMap)

\* lines 278-279: to_exit = [], one kite.ltp call for the open positions.  The
\* call is not inside any try but the KeyboardInterrupt one: an exception of
\* the provider ends the process.
FetchLtp ==
  /\ pc = "ltp"
  /\ to_exit' = <<>>
  /\ idx' = 1
  /\ IF active_trades = <<>>
     THEN /\ ltp_map' = NoLtpMap
          /\ pc' = "exits"
          /\ hist' = [hist EXCEPT !.lookups = {}, !.requests = {}, !.opened = {},
                                  !.batches_requested = {}, !.batches_failed = {}]
     ELSE \E outcome \in CallOutcomes :
            IF outcome = "ok"
            THEN /\ \E m \in LtpMaps(Keys(active_trades)) : ltp_map' = m
                 /\ pc' = "exits"
                 /\ hist' = [hist EXCEPT !.lookups = {}, !.requests = {}, !.opened = {},
                                  !.batches_requested = {}, !.batches_failed = {}]
            ELSE /\ ltp_map' = ltp_map
                 /\ pc' = "crashed"
                 /\ hist' = [hist EXCEPT !.lookups = {}, !.requests = {}, !.opened = {},
                                         !.batches_requested = {}, !.batches_failed = {},
                                         !.death = outcome,
                                         !.cred = @ \/ (outcome = "token")]
  /\ ltp_data_df' = <<>>
  /\ UNCHANGED <<bt, symbols, active_trades, realized_trades, vwap_cache, json_file, csv_file,
                 clock, now, save_ret, cycle>>

\* lines 280-320, one pass of the loop over active_trades.items()
ExitEval ==
  /\ pc = "exits"
  /\ idx <= Len(active_trades)
  /\ LET trade == active_trades[idx]
         ltp == LivePrice(ltp_map, trade)
     IN \E bars \in (IF CacheFresh(vwap_cache, trade.token, clock)
                      THEN {BarsEmpty} ELSE BarOptions(trade.token.id)) :
          LET r == calculate_intraday_vwap_pair(vwap_cache, trade.token, clock, bars)
              exit == ExitCond(ltp, trade.entry_price, r.vwap_now, r.vwap_prev)
              tok == r.fetched /\ bars.exc = "token"
          IN /\ vwap_cache' = r.cache
             /\ realized_trades' = IF exit THEN Append(realized_trades, Realized(trade, ltp))
                                   ELSE realized_trades
             /\ to_exit' = IF exit THEN Append(to_exit, trade.symbol) ELSE to_exit
             /\ hist' = [hist EXCEPT
                   !.evals = @ \cup {[symbol |-> trade.symbol, ltp |-> ltp,
                                      quoted |-> ltp_map[trade.symbol].present,
                                      entry_price |-> trade.entry_price,
                                      vwap_now |-> r.vwap_now, vwap_prev |-> r.vwap_prev,
                                      exit |-> exit]},
                   !.cred = @ \/ tok]
  /\ idx' = idx + 1
  /\ UNCHANGED <<bt, pc, symbols, active_trades, json_file, csv_file, clock, now, ltp_data_df,
                 ltp_map, save_ret, cycle>>

\* the exit loop left after its first pass, as by a break at the end of its body
PopAfterFirstPass ==
  /\ pc = "exits"
  /\ idx > 1 \/ idx > Len(active_trades)
  /\ active_trades' = PopAll(active_trades, to_exit)
  /\ ltp_map' = NoLtpMap
  /\ to_exit' = <<>>
  /\ idx' = 1
  /\ hist' = [hist EXCEPT !.evals = {}]
  /\ pc' = "save"
  /\ save_ret' = "sleep"
  /\ UNCHANGED <<bt, symbols, realized_trades, vwap_cache, json_file, csv_file, clock, now,
                 ltp_data_df, cycle>>

\* lines 322-354: the marked positions leave the dict, the P&L summary is
\* printed, save_trade_data is called
Pop ==
  /\ pc = "exits"
  /\ idx > Len(active_trades)
  /\ active_trades' = PopAll(active_trades, to_exit)
  /\ ltp_map' = NoLtpMap
  /\ to_exit' = <<>>
  /\ idx' = 1
  /\ hist' = [hist EXCEPT !.evals = {}]
  /\ pc' = "save"
  /\ save_ret' = "sleep"
  /\ UNCHANGED <<bt, symbols, realized_trades, vwap_cache, json_file, csv_file, clock, now,
                 ltp_data_df, cycle>>

\* line 207: open(json_path, "w") truncates the file
SaveOpenJson ==
  /\ pc = "save"
  /\ json_file' = FileTrunc
  /\ hist' = [hist EXCEPT !.save_complete = FALSE]
  /\ pc' = "save_json"
  /\ UNCHANGED <<bt, symbols, active_trades, realized_trades, vwap_cache, csv_file, clock, now,
                 ltp_data_df, ltp_map, to_exit, idx, save_ret, cycle>>

\* line 208 and the end of the with block: the dump is written and closed
SaveDumpJson ==
  /\ pc = "save_json"
  /\ json_file' = FileFull(JsonDump(active_trades))
  /\ pc' = "save_csv"
  /\ UNCHANGED <<bt, symbols, active_trades, realized_trades, vwap_cache, csv_file, clock, now,
                 ltp_data_df, ltp_map, to_exit, idx, save_ret, cycle, hist>>

\* save_trade_data without its line 209: realized_trades.csv is not written
SaveCsvSkipped ==
  /\ pc = "save_csv"
  /\ hist' = [hist EXCEPT !.saved = [open |-> json_file.data, realized |-> hist.saved.realized],
                          !.mem = [open |-> active_trades, realized |-> hist.mem.realized],
                          !.save_complete = TRUE]
  /\ pc' = save_ret
  /\ UNCHANGED <<bt, symbols, active_trades, realized_trades, vwap_cache, json_file, csv_file,
                 clock, now, ltp_data_df, ltp_map, to_exit, idx, save_ret, cycle>>

\* line 209: the frame of realized trades is written; save_trade_data returns
SaveCsv ==
  /\ pc = "save_csv"
  /\ csv_file' = FileFull(realized_trades)
  /\ hist' = [hist EXCEPT !.saved = [open |-> json_file.data, realized |-> realized_trades],
                          !.mem = [open |-> active_trades, realized |-> realized_trades],
                          !.save_complete = TRUE]
  /\ pc' = save_ret
  /\ UNCHANGED <<bt, symbols, active_trades, realized_trades, vwap_cache, json_file, clock, now,
                 ltp_data_df, ltp_map, to_exit, idx, save_ret, cycle>>

\* lines 355-359: the countdown.  A cycle lasts SCAN_INTERVAL_SECONDS at least;
\* a slow one (provider calls, 0.4 s per batch) is taken to last a whole TTL.
Sleep ==
  /\ pc = "sleep"
  /\ \E d \in {SCAN_INTERVAL_SECONDS, VWAP_CACHE_TTL} : clock' = clock + d
  /\ pc' = "scan"
  /\ hist' = [hist EXCEPT !.cred_next = hist.cred, !.cred = FALSE]
  /\ UNCHANGED <<bt, symbols, active_trades, realized_trades, vwap_cache, json_file, csv_file,
                 now, ltp_data_df, ltp_map, to_exit, idx, save_ret, cycle>>

\* lines 361-364: KeyboardInterrupt anywhere inside the try block; the handler
\* calls save_trade_data and closes the log
Interrupt ==
  /\ pc \in TryPcs
  /\ ~hist.interrupted
  /\ hist' = [hist EXCEPT !.interrupted = TRUE]
  /\ pc' = "save"
  /\ save_ret' = "stopped"
  /\ UNCHANGED <<bt, symbols, active_trades, realized_trades, vwap_cache, json_file, csv_file,
                 clock, now, ltp_data_df, ltp_map, to_exit, idx, cycle>>

\* what a process that ended leaves behind: the files and the clock
Gone ==
  /\ active_trades' = <<>>
  /\ realized_trades' = <<>>
  /\ vwap_cache' = EmptyCache
  /\ ltp_data_df' = <<>>
  /\ ltp_map' = NoLtpMap
  /\ to_exit' = <<>>
  /\ idx' = 1
  /\ save_ret' = "sleep"
  /\ hist' = Merge(RunHist, hist)
  /\ UNCHANGED <<bt, symbols, json_file, csv_file, clock, now, cycle>>

\* the process is killed or the machine goes down: nothing more is executed,
\* the memory of the process is lost
Kill ==
  /\ pc \in RunPcs
  /\ pc' = "killed"
  /\ Gone

\* the operator starts the script again: a new process, the same files
Restart ==
  /\ pc \in EndPcs
  /\ pc' = "boot"
  /\ Gone

Next ==
  \/ Startup
  \/ LoopTop
  \/ Admit
  \/ FetchLtp
  \/ ExitEval
  \/ Pop
  \/ SaveOpenJson
  \/ SaveDumpJson
  \/ SaveCsv
  \/ Sleep
  \/ Interrupt
  \/ Kill
  \/ Restart

\* the manager on a universe of one instrument, from a first start
Init == InitWith(<<"S1">>, "boot")
Spec == Init /\ [][Next]_vars

\* the manager on a universe larger than MAX_TRADES
InitCap == InitWith(<<"F1", "F2", "F3", "F4", "F5", "F6">>, "boot")
SpecCap == InitCap /\ [][Next]_vars

(***************************************************************************)
(* The cache on its own: reads of two tokens at arbitrary times             *)
(***************************************************************************)
\* what kite.historical_data answers in the stand-alone cache specification
CacheBarOptions(id) ==
  IF id = 1 THEN {BarsRaise, BarsEmpty, BarsNew, BarsFalling} ELSE {BarsRising}

CacheRead ==
  /\ pc = "cache"
  /\ hist.reads < MaxReads
  /\ \E tok \in {IntTok(1), IntTok(2)} : \E bars \in CacheBarOptions(tok.id) :
       LET r == calculate_intraday_vwap_pair(vwap_cache, tok, clock, bars)
       IN /\ vwap_cache' = r.cache
          /\ hist' = [hist EXCEPT
                !.reads = @ + 1,
                !.read = [tok |-> tok, time |-> clock, prior |-> vwap_cache[tok],
                          fetched |-> r.fetched,
                          answer |-> (IF ~r.fetched THEN "none"
                                      ELSE IF bars.kind = "raise" THEN "raise"
                                      ELSE IF bars.candles = <<>> THEN "empty"
                                      ELSE "bars"),
                          vwap_now |-> r.vwap_now,
                          vwap_prev |-> r.vwap_prev],
                !.bar_log[tok] = IF r.fetched THEN Append(@, clock) ELSE @]
  /\ UNCHANGED <<bt, pc, symbols, active_trades, realized_trades, json_file, csv_file, clock,
                 now, ltp_data_df, ltp_map, to_exit, idx, save_ret, cycle>>

CacheTick ==
  /\ pc = "cache"
  /\ \E d \in {80, 100} : clock + d <= MaxClock /\ clock' = clock + d
  /\ UNCHANGED <<bt, pc, symbols, active_trades, realized_trades, vwap_cache, json_file,
                 csv_file, now, ltp_data_df, ltp_map, to_exit, idx, save_ret, cycle,
                 hist>>

NextCache == CacheRead \/ CacheTick

InitCache == InitWith(<<"S1">>, "cache")
SpecCache == InitCache /\ [][NextCache]_vars

(***************************************************************************)
(* The weekly backtest: simulate_backtest of src/main.py (lines 64-115; the *)
(* function of src/send_weekly_momentum_signal.py is the same text).  A     *)
(* pandas Series is a sequence of [name, value] items; a float is a         *)
(* fraction, NaN is Undef.                                                  *)
(***************************************************************************)
Instruments == {"A", "B", "C"}

FracAdd(a, b) == Frac(a.num * b.den + b.num * a.den, a.den * b.den)
FracMul(a, b) == Frac(a.num * b.num, a.den * b.den)
\* a / b in floating point: a zero divisor gives inf or NaN, never an error
FracDiv(a, b) ==
  IF ~a.def \/ ~b.def \/ b.num = 0 THEN Undef
  ELSE IF b.num > 0 THEN Frac(a.num * b.den, a.den * b.num)
  ELSE Frac(-(a.num * b.den), a.den * (-b.num))
\* the weight record of line 83 replaced by the None of line 79
WeightsRecNone(w) == [none |-> TRUE, series |-> <<>>]

\* the comparison of line 75 with <= in place of <
FracLtOrEqual(a, b) == a.def /\ b.def /\ a.num * b.den <= b.num * a.den

\* a < b in floating point: false when either side is NaN
FracLt(a, b) == a.def /\ b.def /\ a.num * b.den < b.num * a.den

\* rows of the score frame: the scores of one week, NaN where the instrument
\* has no score.  The scores of a row are distinct, so the order of
\* sort_values does not depend on how the sort treats equal keys.
ScoreRow(a, b, c) == [x \in Instruments |-> IF x = "A" THEN a ELSE IF x = "B" THEN b ELSE c]

ScoreRows ==
  {ScoreRow(Frac(2, 1), Frac(1, 1), Frac(1, 2)),
   ScoreRow(Frac(2, 5), Frac(3, 10), Frac(1, 10)),
   ScoreRow(Undef, Undef, Undef),
   ScoreRow(Frac(3, 1), Frac(-1, 1), Undef),
   ScoreRow(Undef, Frac(1, 1), Frac(1, 2)),
   ScoreRow(Frac(2, 1), Undef, Undef)}

TopNOptions == {1, 2, 3}
ThreshOptions == {Frac(1, 1), Frac(1, 2)}

\* the daily frame at the realization date: the date is missing, fewer than
\* six rows are left, the rows are there, or the lookup raises
DayOptions == {"absent", "late", "ok", "error"}

\* Monday and next-week close per instrument; NaN where the frame has a gap
PriceOptions ==
  {[x \in Instruments |->
      IF x = "A" THEN [mon |-> Frac(10, 1), nxt |-> Frac(11, 1)]
      ELSE IF x = "B" THEN [mon |-> b, nxt |-> Frac(9, 1)]
      ELSE [mon |-> Frac(10, 1), nxt |-> Frac(10, 1)]] : b \in {Frac(10, 1), Undef}}

\* line 71: score.iloc[i].dropna(), in column order
RECURSIVE DropNa(_, _)
DropNa(row, cols) ==
  IF cols = <<>> THEN <<>>
  ELSE (IF row[Head(cols)].def THEN <<[name |-> Head(cols), value |-> row[Head(cols)]]>>
        ELSE <<>>) \o DropNa(row, Tail(cols))

\* line 72: sort_values(ascending=False)
RECURSIVE InsertDesc(_, _)
InsertDesc(sorted, x) ==
  IF sorted = <<>> THEN <<x>>
  ELSE IF FracGt(x.value, Head(sorted).value) THEN <<x>> \o sorted
  ELSE <<Head(sorted)>> \o InsertDesc(Tail(sorted), x)

RECURSIVE SortValuesDesc(_, _)
SortValuesDesc(done, todo) ==
  IF todo = <<>> THEN done ELSE SortValuesDesc(InsertDesc(done, Head(todo)), Tail(todo))

\* line 72: .head(top_n)
SeriesHead(series, n) == SubSeq(series, 1, IF n < Len(series) THEN n ELSE Len(series))

\* Series.sum(): 0.0 for an empty Series
RECURSIVE SeriesSum(_)
SeriesSum(series) ==
  IF series = <<>> THEN Frac(0, 1) ELSE FracAdd(Head(series).value, SeriesSum(Tail(series)))

\* line 73: Series.mean(): NaN for an empty Series
SeriesMean(series) ==
  IF series = <<>> THEN Undef ELSE FracDiv(SeriesSum(series), Frac(Len(series), 1))

\* line 82: top / top.sum()
Weights(top) ==
  [k \in 1..Len(top) |-> [name |-> top[k].name,
                          value |-> FracDiv(top[k].value, SeriesSum(top))]]

\* lines 101-103: ((nxt / mon - 1).fillna(0) * weights).sum()
RECURSIVE WeightedReturn(_, _)
WeightedReturn(weights, prices) ==
  IF weights = <<>> THEN Frac(0, 1)
  ELSE LET w == Head(weights)
           q == FracDiv(prices[w.name].nxt, prices[w.name].mon)
           ret == IF q.def THEN FracAdd(q, Frac(-1, 1)) ELSE Frac(0, 1)
           term == IF w.value.def THEN FracMul(ret, w.value) ELSE Undef
           rest == WeightedReturn(Tail(weights), prices)
       IN IF term.def /\ rest.def THEN FracAdd(term, rest) ELSE Undef

\* a weight record: None in a cash week, the weights Series otherwise
NoWeights == [none |-> TRUE, series |-> <<>>]
WeightsRec(w) == [none |-> FALSE, series |-> w]

\* lines 64-65: the call, with its parameters, and the empty lists
BacktestStart ==
  /\ pc = "backtest"
  /\ \E n \in TopNOptions, t \in ThreshOptions :
       bt' = [NoBacktest EXCEPT !.top_n = n, !.thresh = t]
  /\ pc' = "week"
  /\ UNCHANGED <<symbols, active_trades, realized_trades, vwap_cache, json_file, csv_file,
                 clock, now, ltp_data_df, ltp_map, to_exit, idx, save_ret, cycle, hist>>

\* lines 67-109: one pass of the loop over the weeks
BacktestWeek ==
  /\ pc = "week"
  /\ bt.i < MaxWeeks
  /\ \E row \in ScoreRows, day \in DayOptions, prices \in PriceOptions :
       LET next_mon == bt.i + 1
           cur_scores == DropNa(row, <<"A", "B", "C">>)
           top == SeriesHead(SortValuesDesc(<<>>, cur_scores), bt.top_n)
           avg_score == SeriesMean(top)
           weights == Weights(top)
           gap == \E k \in 1..Len(top) : ~prices[top[k].name].mon.def
       IN IF FracLt(avg_score, bt.thresh)
          THEN bt' = [bt EXCEPT !.i = @ + 1, !.cur_scores = cur_scores,
                                !.day = day, !.gap = gap,
                                !.returns = Append(@, Frac(0, 1)),
                                !.cash_flags = Append(@, TRUE),
                                !.dates = Append(@, next_mon),
                                !.weights_rec = Append(@, NoWeights)]
          ELSE bt' = [bt EXCEPT !.i = @ + 1, !.cur_scores = cur_scores,
                                !.day = day, !.gap = gap,
                                !.weights_rec = Append(@, WeightsRec(weights)),
                                !.dates = Append(@, next_mon),
                                !.returns = Append(@, IF day = "ok"
                                                      THEN WeightedReturn(weights, prices)
                                                      ELSE Frac(0, 1)),
                                !.cash_flags = Append(@, FALSE)]
  /\ UNCHANGED <<pc, symbols, active_trades, realized_trades, vwap_cache, json_file, csv_file,
                 clock, now, ltp_data_df, ltp_map, to_exit, idx, save_ret, cycle, hist>>

\* lines 111-115: the loop is over, the lists are returned
BacktestReturn ==
  /\ pc = "week"
  /\ pc' = "returned"
  /\ UNCHANGED <<bt, symbols, active_trades, realized_trades, vwap_cache, json_file,
                 csv_file, clock, now, ltp_data_df, ltp_map, to_exit, idx, save_ret, cycle,
                 hist>>

NextBacktest == BacktestStart \/ BacktestWeek \/ BacktestReturn

InitBacktest == InitWith(<<>>, "backtest")
SpecBacktest == InitBacktest /\ [][NextBacktest]_vars

(***************************************************************************)
(* Properties                                                               *)
(***************************************************************************)

\* C1: in every reachable state, from an empty start or after a resume from the
\* snapshot, active_trades holds at most MAX_TRADES positions.
C1_AtMostMaxTrades == Len(active_trades) <= MAX_TRADES

\* the admission step has just filled the last slot of a resumed set of
\* positions while two candidates were looked up
C1_Witness ==
  /\ pc = "ltp"
  /\ Len(active_trades) = MAX_TRADES
  /\ Cardinality(hist.lookups) > 1
  /\ \E i \in 1..Len(active_trades) : active_trades[i].token.kind = "str"
  /\ \E i \in 1..Len(active_trades) : active_trades[i].entry_time = now

\* C2: the admission step leaves every position that is open as it is (entry
\* price, quantity, entry time) and adds positions only for symbols that were
\* not open.
C2_NoReadmission ==
  [][(pc = "admit" /\ pc' = "ltp") =>
       /\ Len(active_trades') >= Len(active_trades)
       /\ \A i \in 1..Len(active_trades) : active_trades'[i] = active_trades[i]
       /\ \A i \in (Len(active_trades) + 1)..Len(active_trades') :
            active_trades'[i].symbol \notin Keys(active_trades)
       /\ Cardinality(Keys(active_trades')) = Len(active_trades')]_vars

\* the admission step has run over a frame in which a symbol that has been open
\* since an earlier cycle passes the move and volume filters again
C2_Witness ==
  /\ pc = "ltp"
  /\ \E i \in 1..Len(ltp_data_df) :
       /\ ltp_data_df[i].symbol \in Keys(active_trades)
       /\ PassesFilters(ltp_data_df[i], <<>>)
       /\ Get(active_trades, ltp_data_df[i].symbol).entry_time < now

\* C3: a position whose exit evaluation saw a live price at or below
\* entry_price * (1 - STOP_LOSS_PCT/100) is marked for exit with a realized row,
\* whatever the VWAP pair was, and has left active_trades when the exit step
\* of that cycle is over.
C3_StopLossCloses ==
  [][/\ pc' = "exits" =>
          \A e \in hist'.evals : StopHit(e.ltp, e.entry_price) =>
             /\ e.symbol \in Range(to_exit')
             /\ \E i \in 1..Len(realized_trades') :
                  /\ realized_trades'[i].symbol = e.symbol
                  /\ realized_trades'[i].exit_price = e.ltp
     /\ (pc = "exits" /\ pc' = "save" /\ save_ret' = "sleep") =>
          \A e \in hist.evals : StopHit(e.ltp, e.entry_price) =>
             e.symbol \notin Keys(active_trades')]_vars

\* the exit loop is over and marked a position on the stop-loss alone: its VWAP
\* pair is defined and rising, and the price is above the VWAP
C3_Witness ==
  /\ pc = "exits"
  /\ idx > Len(active_trades)
  /\ \E e \in hist.evals :
       /\ StopHit(e.ltp, e.entry_price)
       /\ Truthy(e.vwap_now) /\ Truthy(e.vwap_prev)
       /\ ~VwapExit(e.ltp, e.vwap_now, e.vwap_prev)
       /\ e.symbol \in Range(to_exit)

\* C4: a read of a token less than VWAP_CACHE_TTL seconds after its last
\* computation returns the cached pair, leaves the entry alone and requests no
\* bars; any other read requests bars once and replaces the entry; two bar
\* requests for one token are at least VWAP_CACHE_TTL seconds apart.
C4_CacheTtl ==
  /\ hist.reads > 0 =>
       LET r == hist.read
           within == r.prior.present /\ r.time - r.prior.timestamp < VWAP_CACHE_TTL
       IN /\ within => /\ ~r.fetched
                        /\ r.vwap_now = r.prior.vwap_now
                        /\ r.vwap_prev = r.prior.vwap_prev
                        /\ vwap_cache[r.tok] = r.prior
          /\ ~within => /\ r.fetched
                         /\ vwap_cache[r.tok] = Entry(r.time, r.vwap_now, r.vwap_prev)
                         /\ hist.bar_log[r.tok][Len(hist.bar_log[r.tok])] = r.time
  /\ \A tok \in Tokens : \A i, j \in 1..Len(hist.bar_log[tok]) :
       i < j => hist.bar_log[tok][j] - hist.bar_log[tok][i] >= VWAP_CACHE_TTL

\* three reads of one token, the last at t = 200: bars were requested at t = 0
\* and at t = 200 only
C4_Witness ==
  /\ hist.reads = 3
  /\ hist.read.tok = IntTok(1)
  /\ hist.read.time = 200
  /\ hist.bar_log[IntTok(1)] = <<0, 200>>
  /\ hist.bar_log[IntTok(2)] = <<>>

\* C5: whenever the two files are read (after a kill at any point, or while a
\* save is running), what is read back is the content of one completed save,
\* the last one or the one being written, and no file is partly written.
C5_SaveAtomic ==
  LET back == [open |-> ResumeActive(json_file), realized |-> ResumeRealized(csv_file)]
      new == [open |-> JsonDump(active_trades), realized |-> realized_trades]
  IN /\ json_file.state # "trunc"
     /\ back = hist.saved \/ (pc \in SavePcs /\ back = new)

\* C6: a process started on the files of a completed save resumes an
\* active_trades and a realized_trades equal to the ones that were saved.
C6_ResumeRoundTrip ==
  (pc = "scan" /\ hist.boot_clean /\ hist.boot_json = "ok") =>
     /\ active_trades = hist.mem.open
     /\ realized_trades = hist.mem.realized

\* C7: a start without snapshot files reaches the loop with empty state; a
\* start on a corrupt active_trades.json never reaches the loop.
C7_StartupSnapshot ==
  /\ (pc = "scan" /\ hist.boot_json = "absent" /\ hist.boot_csv = "absent") =>
        (active_trades = <<>> /\ realized_trades = <<>>)
  /\ ~(pc \in TryPcs /\ hist.boot_json = "corrupt")

\* C8: a process stopped by an interrupt has finished the step it was in (no
\* exit loop left half-way, no marked position left in active_trades), has
\* written both files from its state and has reported the final realized P&L.
C8_OrderlyStop ==
  pc = "stopped" =>
     /\ to_exit = <<>> /\ idx = 1
     /\ json_file = FileFull(JsonDump(active_trades))
     /\ csv_file = FileFull(realized_trades)
     /\ hist.final_pnl_reported

\* C9: no transient failure of a provider call ends the process.
C9_TransientNeverEnds == ~(pc = "crashed" /\ hist.death = "transient")

\* C10: after a TokenException of the provider the loop does not go on to
\* another cycle, and a process it ends has its state in the files.
C10_CredentialFailureStops ==
  /\ ~hist.cred_next
  /\ (pc = "crashed" /\ hist.death = "token") =>
        /\ json_file = FileFull(JsonDump(active_trades))
        /\ csv_file = FileFull(realized_trades)

\* C11: when a cycle reaches the countdown, active_trades.json holds the dump
\* of active_trades and realized_trades.csv holds realized_trades: every
\* opening and closing of the cycle is in the files before the next cycle.
C11_PersistedAtCycleEnd ==
  pc = "sleep" =>
     /\ json_file.state = "full"
     /\ Len(json_file.data) = Len(active_trades)
     /\ \A i \in 1..Len(active_trades) :
          /\ json_file.data[i].symbol = active_trades[i].symbol
          /\ json_file.data[i].entry_price = active_trades[i].entry_price
          /\ json_file.data[i].qty = active_trades[i].qty
          /\ json_file.data[i].entry_time = active_trades[i].entry_time
          /\ json_file.data[i].token.id = active_trades[i].token.id
     /\ csv_file = FileFull(realized_trades)

\* a cycle ends with a position that was opened in it and a realized trade
C11_Witness ==
  /\ pc = "sleep"
  /\ realized_trades # <<>>
  /\ \E i \in 1..Len(active_trades) : active_trades[i].entry_time = now
  /\ hist.saved.realized = realized_trades

C13_VwapGate ==
  [][(pc = "admit" /\ pc' = "ltp") =>
       \A i \in 1..Len(active_trades') :
          active_trades'[i].symbol \in hist'.opened =>
             LET c == vwap_cache'[active_trades'[i].token]
             IN /\ c.present
                /\ c.vwap_now.def
                /\ active_trades'[i].entry_price * c.vwap_now.den > c.vwap_now.num
                /\ \/ ~c.vwap_prev.def
                   \/ c.vwap_now.num * c.vwap_prev.den > c.vwap_prev.num * c.vwap_now.den]_vars

\* the admission step looked a symbol up whose price is above a VWAP that is
\* not above its previous value, and opened nothing
C13_Witness ==
  /\ pc = "ltp"
  /\ hist.opened = {}
  /\ \E s \in hist.lookups :
       LET c == vwap_cache[get_token(s)]
       IN /\ c.vwap_now.def /\ c.vwap_prev.def
          /\ FracLe(c.vwap_now, c.vwap_prev)
          /\ \E i \in 1..Len(ltp_data_df) :
               /\ ltp_data_df[i].symbol = s
               /\ PriceGt(ltp_data_df[i].last_price, c.vwap_now)

\* C14: entry evaluation looks the VWAP up only for rows whose symbol is not
\* open, whose pct_change is above MIN_PCT_CHANGE and whose volume is at least
\* MIN_VOLUME_THRESHOLD, and requests bars only for tokens of such rows.
C14_FilterBeforeLookup ==
  [][(pc = "admit" /\ pc' = "ltp") =>
       /\ \A s \in hist'.lookups :
            /\ s \notin Keys(active_trades)
            /\ \E i \in 1..Len(ltp_data_df) :
                 /\ ltp_data_df[i].symbol = s
                 /\ ltp_data_df[i].open # 0
                 /\ (ltp_data_df[i].last_price - ltp_data_df[i].open) * 100
                      > MIN_PCT_CHANGE * ltp_data_df[i].open
                 /\ ltp_data_df[i].volume >= MIN_VOLUME_THRESHOLD
       /\ \A t \in hist'.requests : \E s \in hist'.lookups : t = get_token(s)
       /\ \A t \in Tokens :
            vwap_cache'[t] # vwap_cache[t] => t \in hist'.requests]_vars

\* the admission step ran over a row that moves enough but trades below the
\* volume floor, and looked nothing up
C14_Witness ==
  /\ pc = "ltp"
  /\ hist.lookups = {}
  /\ hist.requests = {}
  /\ \E i \in 1..Len(ltp_data_df) :
       /\ FracGt(ltp_data_df[i].pct_change, Frac(MIN_PCT_CHANGE, 1))
       /\ ltp_data_df[i].volume < MIN_VOLUME_THRESHOLD
       /\ ltp_data_df[i].symbol \notin Keys(active_trades)

\* C15: the admission step opens exactly the first
\* min(MAX_TRADES - open count, number of gated candidates) candidates of the
\* order by score descending, equal scores in scan order: the j-th position
\* it adds is the candidate with exactly j-1 candidates ranked before it.
C15_RankedAdmission ==
  [][(pc = "admit" /\ pc' = "ltp") =>
       LET rows == ltp_data_df
           n == Len(active_trades)
           k == Len(active_trades') - n
           Pair(i) == vwap_cache'[get_token(rows[i].symbol)]
           cands == {i \in 1..Len(rows) :
                       /\ PassesFilters(rows[i], active_trades)
                       /\ VwapGate(rows[i], Pair(i).vwap_now, Pair(i).vwap_prev)}
           Sc(i) == Score(rows[i], Pair(i).vwap_now)
           Before(i, j) == FracGt(Sc(i), Sc(j)) \/ (Sc(i) = Sc(j) /\ i < j)
           slots == MAX_TRADES - n
       IN /\ k = (IF Cardinality(cands) < slots THEN Cardinality(cands) ELSE slots)
          /\ \A j \in 1..k : \E i \in cands :
               /\ rows[i].symbol = active_trades'[n + j].symbol
               /\ Cardinality({m \in cands : Before(m, i)}) = j - 1]_vars

\* six candidates for five slots: the strongest mover, last in scan order, is
\* opened first, the equal scores follow in scan order, the last of them is
\* left out
C15_Witness ==
  /\ pc = "ltp"
  /\ Cardinality(hist.lookups) = 6
  /\ Cardinality(hist.opened) = MAX_TRADES
  /\ active_trades[1].symbol = "F6"
  /\ active_trades[2].symbol = "F1"
  /\ active_trades[5].symbol = "F4"
  /\ "F5" \notin Keys(active_trades)

\* C16: after a batch of the scan failed, no later batch of that scan is
\* requested and the admission step of that cycle opens no position.
C16_FailedBatchAbortsScan ==
  (pc \in {"admit", "ltp"} /\ hist.batches_failed # {}) =>
     /\ \A k \in hist.batches_requested : \A f \in hist.batches_failed : k <= f
     /\ hist.opened = {}

\* C17: in every non-cash week the recorded weights are those of the top-N
\* defined scores, each score[i] / sum(selected scores), and they sum to 1.
C17_WeightsProportional ==
  LET k == Len(bt.cash_flags)
  IN (k > 0 /\ ~bt.cash_flags[k]) =>
        LET w == bt.weights_rec[k]
            top == SeriesHead(SortValuesDesc(<<>>, bt.cur_scores), bt.top_n)
            total == SeriesSum(top)
        IN /\ ~w.none
           /\ Len(w.series) = Len(top)
           /\ \A j \in 1..Len(top) :
                /\ w.series[j].name = top[j].name
                /\ w.series[j].value.def
                /\ w.series[j].value.num * total.num * top[j].value.den
                     = top[j].value.num * total.den * w.series[j].value.den
           /\ SeriesSum(w.series) = Frac(1, 1)

\* C18: every weight recorded for a non-cash week lies in [0, 1].
C18_WeightsInUnitInterval ==
  LET k == Len(bt.cash_flags)
  IN (k > 0 /\ ~bt.cash_flags[k]) =>
        \A j \in 1..Len(bt.weights_rec[k].series) :
           LET v == bt.weights_rec[k].series[j].value
           IN v.def /\ v.num >= 0 /\ v.num <= v.den

\* C19: a week is recorded with cash flag true exactly when the mean of its
\* selected top-N scores is below the threshold; a cash week has no weight
\* record and return 0, any other week has a weight record.
C19_CashIffBelowThreshold ==
  LET k == Len(bt.cash_flags)
  IN k > 0 =>
        LET top == SeriesHead(SortValuesDesc(<<>>, bt.cur_scores), bt.top_n)
            total == SeriesSum(top)
            below == /\ Len(top) > 0
                     /\ total.num * bt.thresh.den < bt.thresh.num * total.den * Len(top)
        IN /\ bt.cash_flags[k] <=> below
           /\ bt.cash_flags[k] => (bt.weights_rec[k].none /\ bt.returns[k] = Frac(0, 1))
           /\ ~bt.cash_flags[k] => ~bt.weights_rec[k].none

\* scores {A: 0.4, B: 0.3, C: 0.1}, top_n = 2, threshold = 1.0: a cash week with
\* return 0
C19_Witness ==
  /\ bt.top_n = 2
  /\ bt.thresh = Frac(1, 1)
  /\ bt.cur_scores = DropNa(ScoreRow(Frac(2, 5), Frac(3, 10), Frac(1, 10)), <<"A", "B", "C">>)
  /\ Len(bt.cash_flags) > 0
  /\ bt.cash_flags[Len(bt.cash_flags)]
  /\ bt.weights_rec[Len(bt.weights_rec)].none
  /\ bt.returns[Len(bt.returns)] = Frac(0, 1)

\* C20: a week in which no instrument has a defined score is recorded as a
\* cash week: cash flag true and no weight record.
C20_NoScoresIsCash ==
  LET k == Len(bt.cash_flags)
  IN (k > 0 /\ bt.cur_scores = <<>>) =>
        (bt.cash_flags[k] /\ bt.weights_rec[k].none)

\* C21: a week whose realization date has no row in the daily data appends
\* nothing to the four result lists, in a cash week and in an invested week.
C21_AbsentDateAppendsNothing ==
  [][(pc = "week" /\ bt'.i = bt.i + 1 /\ bt'.day = "absent") =>
       /\ bt'.returns = bt.returns
       /\ bt'.dates = bt.dates
       /\ bt'.cash_flags = bt.cash_flags
       /\ bt'.weights_rec = bt.weights_rec]_vars

\* C22: an invested week in which a selected instrument has no entry price on
\* the realization date, or in which no daily row lies five rows after that
\* date, appends no return.
C22_MissingPriceAppendsNoReturn ==
  [][(/\ pc = "week"
      /\ bt'.i = bt.i + 1
      /\ ~FracLt(SeriesMean(SeriesHead(SortValuesDesc(<<>>, bt'.cur_scores), bt.top_n)),
                 bt.thresh)
      /\ \/ bt'.day = "late"
         \/ bt'.day = "ok" /\ bt'.gap) =>
       bt'.returns = bt.returns]_vars

\* C26: after every pass of the loop the four result lists have the same
\* length, their k-th entries belong to the k-th week of the loop, and the k-th
\* weight record is None exactly when the k-th cash flag is true.
C26_ListsAligned ==
  /\ Len(bt.returns) = Len(bt.dates)
  /\ Len(bt.cash_flags) = Len(bt.dates)
  /\ Len(bt.weights_rec) = Len(bt.dates)
  /\ Len(bt.dates) = bt.i
  /\ \A k \in 1..Len(bt.dates) :
       /\ bt.dates[k] = k
       /\ bt.weights_rec[k].none <=> bt.cash_flags[k]
       /\ bt.cash_flags[k] => bt.returns[k] = Frac(0, 1)

\* two weeks have been recorded, one of them in cash and one invested with a
\* return that is not zero
C26_Witness ==
  /\ pc = "returned"
  /\ Len(bt.dates) = 2
  /\ bt.cash_flags[1]
  /\ ~bt.cash_flags[2]
  /\ Len(bt.weights_rec[2].series) = 2
  /\ bt.returns[2].def
  /\ bt.returns[2].num # 0

\* C23: a pass of the exit loop that closes a position appends exactly one
\* realized trade, for that position, with pnl = (exit_price - entry_price) *
\* qty; no other step of the process changes the list, which only grows at its
\* end; the positions closed in a cycle are out of the open set when the cycle
\* goes on to its save.
C23_ExitRealizesOnce ==
  [][(pc \in TryPcs /\ pc' \in TryPcs \cup {"stopped"}) =>
       /\ IF pc = "exits" /\ pc' = "exits" /\ to_exit' # to_exit
          THEN LET trade == active_trades[idx]
                   r == realized_trades'[Len(realized_trades')]
               IN /\ realized_trades' = Append(realized_trades, r)
                  /\ to_exit' = Append(to_exit, trade.symbol)
                  /\ r.symbol = trade.symbol
                  /\ r.entry_price = trade.entry_price
                  /\ r.qty = trade.qty
                  /\ r.exit_price = LivePrice(ltp_map, trade)
                  /\ r.pnl = (r.exit_price - trade.entry_price) * trade.qty
          ELSE realized_trades' = realized_trades
       /\ (pc = "exits" /\ pc' = "save" /\ save_ret' = "sleep") =>
            /\ \A s \in Range(to_exit) : s \notin Keys(active_trades')
            /\ Keys(active_trades') = Keys(active_trades) \ Range(to_exit)]_vars

\* a position has just been closed at a loss and its realized trade follows
\* the one of an earlier cycle
C23_Witness ==
  /\ pc = "exits"
  /\ Len(realized_trades) = 2
  /\ to_exit = <<realized_trades[2].symbol>>
  /\ realized_trades[2].pnl < 0
  /\ realized_trades[2].exit_price < realized_trades[2].entry_price

\* C24: every position is opened with qty = max(1, floor(CAPITAL_PER_TRADE /
\* entry_price)); as long as it is open, in the process that opened it and in a
\* process that resumed it, its qty and entry_price are what they were.
C24_QtyFixedAtEntry ==
  [][/\ \A i \in 1..Len(active_trades') :
          LET p == active_trades'[i]
          IN /\ p.entry_price > 0
             /\ p.qty = (IF CAPITAL_PER_TRADE \div p.entry_price >= 1
                         THEN CAPITAL_PER_TRADE \div p.entry_price ELSE 1)
             /\ (pc \in TryPcs /\ p.symbol \in Keys(active_trades)) =>
                  /\ p.qty = Get(active_trades, p.symbol).qty
                  /\ p.entry_price = Get(active_trades, p.symbol).entry_price
             /\ (pc = "boot" /\ hist.save_complete) =>
                  \E j \in 1..Len(hist.mem.open) :
                     /\ hist.mem.open[j].symbol = p.symbol
                     /\ hist.mem.open[j].qty = p.qty
                     /\ hist.mem.open[j].entry_price = p.entry_price]_vars

\* a position opened at a price above CAPITAL_PER_TRADE, with qty 1, is held in
\* a cycle after the one that opened it, next to one with qty 200
C24_Witness ==
  /\ pc = "sleep"
  /\ \E i \in 1..Len(active_trades) :
       /\ active_trades[i].entry_price > CAPITAL_PER_TRADE
       /\ active_trades[i].qty = 1
       /\ active_trades[i].entry_time < now
  /\ \E i \in 1..Len(active_trades) : active_trades[i].qty = 200

\* C25: an open position for which kite.ltp returned no quote in a cycle is
\* left out of exit logic in that cycle: it is not closed.
C25_MissingQuoteNotClosed ==
  pc = "exits" =>
     \A e \in hist.evals : ~e.quoted => (~e.exit /\ e.symbol \notin Range(to_exit))

\* C27: within a cycle positions are opened only by the admission step, which
\* comes before any exit evaluation of the cycle; every open position, those
\* opened in this cycle included, is exit-evaluated before the cycle's save;
\* the files are written only by the save, which follows the exit loop; no
\* position is opened between the exit loop and the next cycle's admission.
C27_PhaseOrder ==
  [][(pc \in TryPcs /\ pc' \in TryPcs) =>
       /\ ~(Keys(active_trades') \subseteq Keys(active_trades)) =>
            (pc = "admit" /\ pc' = "ltp" /\ to_exit = <<>> /\ hist.evals = {})
       /\ (to_exit' # to_exit \/ realized_trades' # realized_trades) => pc = "exits"
       /\ (json_file' # json_file \/ csv_file' # csv_file) => pc \in SavePcs
       /\ (pc' = "save" /\ save_ret' = "sleep") =>
            /\ pc = "exits"
            /\ \A i \in 1..Len(active_trades) :
                 \E e \in hist.evals : e.symbol = active_trades[i].symbol
       /\ pc' = "exits" => pc \in {"ltp", "exits"}
       /\ pc' = "ltp" => pc \in {"scan", "admit"}]_vars

\* in the first cycle of a first start five positions were opened and all
\* evaluated for exit, and one of them was closed by its stop-loss
C27_Witness ==
  /\ pc = "exits"
  /\ cycle = 1
  /\ Len(active_trades) = MAX_TRADES
  /\ idx > Len(active_trades)
  /\ to_exit = <<"F1">>
  /\ Get(active_trades, "F1").entry_time = now
  /\ \E i \in 1..Len(realized_trades) : realized_trades[i].symbol = "F1"

\* C28: at the end of every cycle the positions the process started with plus
\* those it has opened are the open positions plus the realized trades (from an
\* empty start: admissions = open + realized); a position leaves the open set
\* only with exactly one exit recorded for it in that cycle, and a realized
\* trade is appended only for a symbol that is open.
C28_Conservation ==
  [][(pc \in TryPcs /\ pc' \in TryPcs) =>
       /\ (pc' = "sleep" \/ (pc' \in SavePcs /\ save_ret' = "sleep")) =>
            hist'.resumed + hist'.admissions = Len(active_trades') + Len(realized_trades')
       /\ \A s \in Keys(active_trades) \ Keys(active_trades') :
            /\ pc = "exits"
            /\ Cardinality({e \in hist.evals : e.symbol = s /\ e.exit}) = 1
            /\ Cardinality({i \in 1..Len(to_exit) : to_exit[i] = s}) = 1
       /\ Len(realized_trades') > Len(realized_trades) =>
            realized_trades'[Len(realized_trades')].symbol \in Keys(active_trades)]_vars

\* a process that started empty has opened two positions by the end of its
\* second cycle: one is open, one is realized
C28_Witness ==
  /\ pc = "sleep"
  /\ hist.resumed = 0
  /\ hist.admissions = 2
  /\ Len(active_trades) = 1
  /\ Len(realized_trades) = 1

\* C29: in every snapshot that save_trade_data has written, at the end of a
\* cycle or from the interrupt handler, no position that the exit loop has
\* marked closed, with its realized trade appended, is in the saved open set.
C29_SnapshotExcludesRealized ==
  (pc \in {"sleep", "stopped"} /\ hist.save_complete) =>
     \A i \in 1..Len(json_file.data) : json_file.data[i].symbol \notin Range(to_exit)

\* C30: a read whose bar request raised or returned no bars leaves the entry
\* (None, None) with the time of the read in the cache and returns undefined;
\* a read of a token less than VWAP_CACHE_TTL seconds after such an entry was
\* stored returns undefined, keeps the entry and requests no bars.
C30_FailureCached ==
  hist.reads > 0 =>
     LET r == hist.read
         log == hist.bar_log[r.tok]
     IN /\ (r.fetched /\ r.answer \in {"raise", "empty"}) =>
             /\ vwap_cache[r.tok] = Entry(r.time, Undef, Undef)
             /\ ~r.vwap_now.def
             /\ ~r.vwap_prev.def
        /\ (/\ r.prior.present
            /\ ~r.prior.vwap_now.def
            /\ r.time - r.prior.timestamp < VWAP_CACHE_TTL) =>
             /\ ~r.fetched
             /\ ~r.vwap_now.def
             /\ ~r.vwap_prev.def
             /\ vwap_cache[r.tok] = r.prior
             /\ log # <<>>
             /\ log[Len(log)] = r.prior.timestamp

\* a failed fetch at t = 0 was followed by time passing and a read of the same
\* token at t = 160, which is answered undefined from the cache
C30_Witness ==
  /\ hist.reads >= 2
  /\ hist.read.tok = IntTok(1)
  /\ hist.read.time = 160
  /\ hist.read.prior = Entry(0, Undef, Undef)
  /\ ~hist.read.fetched
  /\ ~hist.read.vwap_now.def
  /\ hist.bar_log[IntTok(1)] = <<0>>

====
